---- MODULE Spec2Model ----
(***************************************************************************)
(* Model of the loggy leveled logger (package loggy): the threshold       *)
(* filter, the severity normalisation, the rendering of a line, the       *)
(* routing to the Out / Err streams, the handling of a failed stream      *)
(* Write (returned error or log.Fatal), the context tag store, calls made *)
(* concurrently from several goroutines, and the filtering Writer.        *)
(*                                                                         *)
(* Text is modelled as a sequence of tokens (a token is a string of the   *)
(* source: a label, a separator, a verb, a payload value), so that        *)
(* fmt.Sprintf is computed and not assumed.  Go's int is modelled with    *)
(* IntBits bits and wraps around on overflow as Go's int does.            *)
(***************************************************************************)
EXTENDS Integers, Sequences, FiniteSets, TLC

VARIABLES opts, ctxStore, heap, outLines, errLines, stdLogLines, exited, call, tagCall,
          chain, added, mux, threads, sink, wcall, payload

\* a caller that threads its context through AddTag: the context it holds and
\* the calls it has made
seqVars == <<chain, added>>

\* goroutines that call the logger concurrently, and the logger's mutex
concVars == <<mux, threads>>

\* a Writer: its inner sink and its last Write
writerVars == <<sink, wcall>>

vars == <<opts, ctxStore, heap, outLines, errLines, stdLogLines, exited, call, tagCall,
          chain, added, mux, threads, sink, wcall, payload>>

(***************************************************************************)
(* Bounds of the model.                                                    *)
(***************************************************************************)
\* width of Go's int in the model (two's complement, wraps on overflow)
IntBits == 4
\* calls are explored until a stream holds this many lines
MaxLines == 2
\* AddTag calls a caller threads its context through
MaxAdds == 4
\* Writes on a Writer are explored until its inner sink holds this much
MaxSink == 2
\* contexts that exist at one time (context.WithValue derives a new one)
MaxCtx == 4

MaxInt == 2^(IntBits - 1) - 1
MinInt == 0 - 2^(IntBits - 1)

\* Go integer arithmetic: the result wraps around into MinInt..MaxInt.
Wrap(x) == ((x - MinInt) % (2^IntBits)) + MinInt

(***************************************************************************)
(* level.go                                                                *)
(***************************************************************************)
LevelStd == 0
LevelCritical == 1
LevelError == 2
LevelWarning == 3
LevelInfo == 4
LevelDebug == 5

LevelNames ==
    (LevelCritical :> "CRIT") @@ (LevelDebug :> "DEBUG") @@ (LevelError :> "ERROR")
        @@ (LevelInfo :> "INFO") @@ (LevelWarning :> "WARN") @@ (LevelStd :> "OUT")

\* LevelNames[severity] of a Go map: the zero value "" for a missing key.
\* A string is a sequence of tokens; "" is the empty sequence.
LevelName(severity) ==
    IF severity \in DOMAIN LevelNames THEN <<LevelNames[severity]>> ELSE <<>>

LenLevelNames == Cardinality(DOMAIN LevelNames)

(***************************************************************************)
(* Options, DefaultOptions and New                                         *)
(***************************************************************************)
\* a nil io.Writer / func value, and the untyped nil a caller sees
Nil == "nil"

\* the zero value of Options: what a field left unset at construction holds
ZeroOptions ==
    [Out |-> Nil, Err |-> Nil, Threshold |-> 0, Prefix |-> <<>>,
     DisableTimestamps |-> FALSE, TimestampFormat |-> <<>>, TimestampFunc |-> Nil,
     LogFatal |-> FALSE, DisableFunctionName |-> FALSE, DisableTags |-> FALSE,
     TagsContextKey |-> <<>>]

ContextKeyTags == <<"loggy.Tags">>

DefaultOptions ==
    [Out |-> "os.Stdout", Err |-> "os.Stderr", Threshold |-> LevelInfo, Prefix |-> <<>>,
     DisableTimestamps |-> FALSE, TimestampFormat |-> <<"time.RFC3339">>,
     TimestampFunc |-> "time.Now", LogFatal |-> FALSE, DisableFunctionName |-> FALSE,
     DisableTags |-> FALSE, TagsContextKey |-> ContextKeyTags]

\* New: the fields it fills from DefaultOptions are Out, Err, TimestampFormat,
\* TimestampFunc and TagsContextKey; every other field is kept as given.
New(options) ==
    [options EXCEPT
        !.Out = IF options.Out = Nil THEN DefaultOptions.Out ELSE options.Out,
        !.Err = IF options.Err = Nil THEN DefaultOptions.Err ELSE options.Err,
        !.TimestampFormat = IF options.TimestampFormat = <<>>
                            THEN DefaultOptions.TimestampFormat
                            ELSE options.TimestampFormat,
        !.TimestampFunc = IF options.TimestampFunc = Nil
                          THEN DefaultOptions.TimestampFunc
                          ELSE options.TimestampFunc,
        !.TagsContextKey = IF options.TagsContextKey = <<>>
                           THEN DefaultOptions.TagsContextKey
                           ELSE options.TagsContextKey]

(***************************************************************************)
(* fmt.Sprintf over tokens: a verb consumes the next argument; a verb      *)
(* without argument prints %!v(MISSING); arguments left over print         *)
(* %!(EXTRA) at the end.  An argument is itself a sequence of tokens.      *)
(***************************************************************************)
Verbs == {"%s", "%v"}

RECURSIVE Sprintf(_, _)
Sprintf(format, args) ==
    IF format = <<>>
    THEN IF args = <<>> THEN <<>> ELSE <<"%!(EXTRA)">>
    ELSE IF Head(format) \in Verbs
         THEN IF args = <<>>
              THEN <<"%!v(MISSING)">> \o Sprintf(Tail(format), args)
              ELSE Head(args) \o Sprintf(Tail(format), Tail(args))
         ELSE <<Head(format)>> \o Sprintf(Tail(format), args)

\* %v of a payload or tag value: the values of the model are Go strings, which
\* %v prints as they are
ValueText(value) == <<value>>

\* l.options.TimestampFunc().Format(l.options.TimestampFormat)
Timestamp == <<"<" \o opts.TimestampFunc \o ">">>

maybePrefixTimestamp(msg) ==
    IF ~opts.DisableTimestamps
    THEN Sprintf(<<"%s", " ", "%s">>, <<Timestamp, msg>>)
    ELSE msg

(***************************************************************************)
(* Contexts and the tag store.  A context is an index of ctxStore; what    *)
(* ctx.Value(TagsContextKey) finds is NoStore or a reference into heap,    *)
(* the mappings (Go maps are references: contexts can share one mapping).  *)
(***************************************************************************)
NoStore == 0

EmptyMap == [n \in {} |-> 0]

\* ctx.Value(l.options.TagsContextKey).(map[string]interface{}) and its ok
CtxValue(ctx) ==
    [ok |-> ctxStore[ctx] # NoStore,
     tags |-> IF ctxStore[ctx] # NoStore THEN heap[ctxStore[ctx]] ELSE EmptyMap]

\* Tags: the mapping of ctx, or a new empty one
Tags(ctx) == IF CtxValue(ctx).ok THEN CtxValue(ctx).tags ELSE EmptyMap

\* Tag: nil when ctx carries no mapping or the mapping has no such name
Tag(ctx, name) ==
    IF ~CtxValue(ctx).ok THEN Nil
    ELSE IF name \notin DOMAIN CtxValue(ctx).tags THEN Nil
    ELSE CtxValue(ctx).tags[name]

\* mutant: a name already stored keeps the value it has
InsertKeepFirst(tags, name, value) == tags @@ (name :> value)

\* tags[name] = value
Insert(tags, name, value) == (name :> value) @@ tags

\* mutant: the whole mapping is emptied
DeleteAll(tags, name) == EmptyMap

\* delete(tags, name)
Delete(tags, name) == [n \in DOMAIN tags \ {name} |-> tags[n]]

\* mutant: the name is not tested
ChangeTagsAnyName(ctx, name, changed) ==
    LET store == IF CtxValue(ctx).ok THEN ctxStore[ctx] ELSE Len(heap) + 1
        heapAfter == IF CtxValue(ctx).ok
                     THEN [heap EXCEPT ![store] = changed]
                     ELSE Append(heap, changed)
    IN  [tags |-> changed, ctx |-> Len(ctxStore) + 1,
         ctxStore |-> Append(ctxStore, store), heap |-> heapAfter]

\* mutant: the change is made on a copy of the mapping, which only the context
\* returned carries
ChangeTagsCopy(ctx, name, changed) ==
    IF name = ""
    THEN [tags |-> Tags(ctx), ctx |-> ctx, ctxStore |-> ctxStore, heap |-> heap]
    ELSE [tags |-> changed, ctx |-> Len(ctxStore) + 1,
          ctxStore |-> Append(ctxStore, Len(heap) + 1), heap |-> Append(heap, changed)]

\* AddTag and RemoveTag: change is Insert(_, name, value) or Delete(_, name).
\* With a name, the mapping of ctx (a new one when ctx carries none) is changed
\* in place and a context derived from ctx carries it; without a name nothing
\* changes.  The result: the mapping and the context returned, and the contexts
\* and mappings that exist afterwards.
ChangeTags(ctx, name, changed) ==
    IF name = ""
    THEN [tags |-> Tags(ctx), ctx |-> ctx, ctxStore |-> ctxStore, heap |-> heap]
    ELSE LET store == IF CtxValue(ctx).ok THEN ctxStore[ctx] ELSE Len(heap) + 1
             heapAfter == IF CtxValue(ctx).ok
                          THEN [heap EXCEPT ![store] = changed]
                          ELSE Append(heap, changed)
         IN  [tags |-> changed, ctx |-> Len(ctxStore) + 1,
              ctxStore |-> Append(ctxStore, store), heap |-> heapAfter]

AddTagResult(ctx, name, value) == ChangeTags(ctx, name, Insert(Tags(ctx), name, value))

RemoveTagResult(ctx, name) == ChangeTags(ctx, name, Delete(Tags(ctx), name))

(***************************************************************************)
(* Logf, stage by stage                                                    *)
(***************************************************************************)
\* mutant: the disabled check is missing
DisabledNever(threshold) == FALSE

\* mutant: the disabled check is off by one
DisabledBelowMinusOne(threshold) == threshold < 0 - 1

\* "Logging is disabled."
Disabled(threshold) == threshold < 0

\* an out-of-range severity becomes LevelStd; severity+1 is Go int arithmetic
Normalize(severity) ==
    IF severity < 0 \/ Wrap(severity + 1) > LenLevelNames THEN LevelStd ELSE severity

\* mutant: the filter forgets that LevelStd is always shown
SuppressedAlsoStd(severity, threshold) == severity >= threshold

\* mutant: the filter suppresses a severity equal to the threshold
SuppressedAtThreshold(severity, threshold) == severity # LevelStd /\ severity >= threshold

\* the threshold filter, applied to the normalised severity
Suppressed(severity, threshold) == severity # LevelStd /\ severity > threshold

\* runtime.Caller(skip): frames[1] is the running function (skip = 0)
Caller(skip, frames) ==
    IF skip + 1 <= Len(frames)
    THEN [ok |-> TRUE, name |-> frames[skip + 1]]
    ELSE [ok |-> FALSE, name |-> <<>>]

\* strings.Split(name, "/") and its last element; a name is its path segments
ShortName(fullName) == <<fullName[Len(fullName)]>>

\* mutant: the diagnostic is labelled as a warning
LookupErrAsWarning ==
    Sprintf(<<"%s", " ", "%s", " ", "%s">>,
            <<LevelName(LevelWarning), <<"loggy.logger.Logf">>,
              <<"failed to dynamically lookup function name">>>>)

\* the diagnostic of a failed lookup
LookupErr ==
    Sprintf(<<"%s", " ", "%s", " ", "%s">>,
            <<LevelName(LevelCritical), <<"loggy.logger.Logf">>,
              <<"failed to dynamically lookup function name">>>>)

\* mutant of TagBytes: a delimiter after every entry, the last one too
RECURSIVE TagBytesTrailing(_, _, _)
TagBytesTrailing(tags, order, count) ==
    IF count >= Len(order) THEN <<>>
    ELSE LET name == order[count + 1]
             delim == IF count < Cardinality(DOMAIN tags) THEN <<", ">> ELSE <<>>
         IN  Sprintf(<<"%s", ":", "%v", "%s">>, <<<<name>>, ValueText(tags[name]), delim>>)
                 \o TagBytesTrailing(tags, order, count + 1)

\* the tag list: "[", then name:value and a delimiter per entry in the order
\* the map iteration yields them, then "]"
RECURSIVE TagBytes(_, _, _)
TagBytes(tags, order, count) ==
    IF count >= Len(order) THEN <<>>
    ELSE LET name == order[count + 1]
             delim == IF count + 1 < Cardinality(DOMAIN tags) THEN <<", ">> ELSE <<>>
         IN  Sprintf(<<"%s", ":", "%v", "%s">>, <<<<name>>, ValueText(tags[name]), delim>>)
                 \o TagBytes(tags, order, count + 1)

WithTags(msg, tags, order) ==
    IF Cardinality(DOMAIN tags) > 0
    THEN Sprintf(<<"%s", " ", "%s">>, <<msg, <<"[">> \o TagBytes(tags, order, 0) \o <<"]">>>>)
    ELSE msg

WithPrefix(msg) ==
    IF opts.Prefix # <<>>
    THEN Sprintf(<<"%s", " ", "%s">>, <<msg, opts.Prefix>>)
    ELSE msg

\* the format used: one " %v" per value when no format was given
RECURSIVE Repeat(_, _)
Repeat(piece, n) == IF n = 0 THEN <<>> ELSE piece \o Repeat(piece, n - 1)

UserFormat(format, message) ==
    IF format = <<>> /\ Len(message) > 0
    THEN Repeat(<<" ", "%v">>, Len(message))
    ELSE format

\* fmt.Sprintf("%s"+format+"\n", msg, message...)
WithPayload(msg, format, message) ==
    Sprintf(<<"%s">> \o UserFormat(format, message) \o <<"\n">>,
            <<msg>> \o [i \in 1..Len(message) |-> ValueText(message[i])])

\* mutant: the boundary between the streams is one level off
StreamForFromWarning(severity) ==
    IF severity = LevelStd \/ severity >= LevelWarning THEN "Out" ELSE "Err"

\* the stream a severity is written to
StreamFor(severity) ==
    IF severity = LevelStd \/ severity >= LevelInfo THEN "Out" ELSE "Err"

\* what a call did not do: it never returned (the process exited inside it)
NoReturn == "no return"

\* stream.Write([]byte(l.maybePrefixTimestamp(text))): the call and the error it
\* returned (outErr, errErr: what a Write on that stream returns now)
StreamWrite(stream, kind, text, outErr, errErr) ==
    [stream |-> stream, kind |-> kind, line |-> maybePrefixTimestamp(text),
     err |-> IF stream = "Out" THEN outErr ELSE errErr]

\* a call that returned err
Returned(err) == [ret |-> err, fatal |-> <<>>, exit |-> FALSE]

\* mutant: the error of the Write is dropped
OnWriteErrorDropped(err, text) ==
    IF opts.LogFatal
    THEN [ret |-> NoReturn, fatal |-> <<text>>, exit |-> TRUE]
    ELSE Returned(Nil)

\* mutant: LogFatal is not looked at
OnWriteErrorNeverFatal(err, text) == Returned(err)

\* `if err != nil`: log.Fatal(text) when LogFatal (the standard logger prints
\* text, then os.Exit(1)), else the error is returned
OnWriteError(err, text) ==
    IF opts.LogFatal
    THEN [ret |-> NoReturn, fatal |-> <<text>>, exit |-> TRUE]
    ELSE Returned(err)

\* mutant: the message is written to both streams
MessageWritesBoth(severity, msg, outErr, errErr) ==
    <<StreamWrite("Out", "message", msg, outErr, errErr),
      StreamWrite("Err", "message", msg, outErr, errErr)>>

\* the Write calls made for the rendered message
MessageWrites(severity, msg, outErr, errErr) ==
    <<StreamWrite(StreamFor(severity), "message", msg, outErr, errErr)>>

LogfResult(sev, capture, writes, end) ==
    [sev |-> sev, capture |-> capture, writes |-> writes,
     ret |-> end.ret, fatal |-> end.fatal, exit |-> end.exit]

\* Logf(ctx, severity, format, message...) called with the call stack frames
\* (frames[1] is Logf itself); order is the order in which the map iteration
\* yields the tag names.
Logf(ctx, severity, format, message, frames, order, outErr, errErr) ==
    IF Disabled(opts.Threshold)
    THEN LogfResult(severity, "none", <<>>, Returned(Nil))
    ELSE
    LET sev == Normalize(severity) IN
    IF Suppressed(sev, opts.Threshold)
    THEN LogfResult(sev, "none", <<>>, Returned(Nil))
    ELSE
    LET label == Sprintf(<<"%s">>, <<LevelName(sev)>>)
        pc == Caller(2, frames)
        capture == IF opts.DisableFunctionName THEN "disabled"
                   ELSE IF pc.ok THEN "ok" ELSE "failed"
        lookup == StreamWrite("Err", "diagnostic", LookupErr, outErr, errErr)
    IN
    IF capture = "failed" /\ lookup.err # Nil
    THEN LogfResult(sev, capture, <<lookup>>, OnWriteError(lookup.err, LookupErr))
    ELSE
    LET before == IF capture = "failed" THEN <<lookup>> ELSE <<>>
        named == IF capture = "ok"
                 THEN Sprintf(<<"%s", " ", "%s">>, <<label, ShortName(pc.name)>>)
                 ELSE label
        tagged == IF ~opts.DisableTags THEN WithTags(named, Tags(ctx), order) ELSE named
        msg == WithPayload(WithPrefix(tagged), format, message)
        writes == MessageWrites(sev, msg, outErr, errErr)
        err == writes[Len(writes)].err
    IN
    LogfResult(sev, capture, before \o writes,
               IF err # Nil THEN OnWriteError(err, msg) ELSE Returned(Nil))

(***************************************************************************)
(* The inputs of the model                                                 *)
(***************************************************************************)
\* severities a caller passes: the declared ones, the first undeclared one,
\* negative ones and the largest ints
Severities == {MinInt, -1} \cup (LevelStd..(LevelDebug + 1)) \cup {MaxInt - 1, MaxInt}

\* thresholds a logger is built with
Thresholds == {MinInt, -1} \cup (LevelStd..(LevelDebug + 1)) \cup {MaxInt}

\* the payload values given to Log and the wrappers without format
Messages == {<<>>, <<"x">>, <<"x", "y">>}

\* the format ("" is <<>>) and payload values given to Logf and the f-wrappers:
\* no format, as many verbs as values, a verb too many, a value too many
Payloads ==
    {[format |-> <<>>, message |-> <<"x">>],
     [format |-> <<"%v">>, message |-> <<"x">>],
     [format |-> <<"%v", " ", "%v">>, message |-> <<"x", "y">>],
     [format |-> <<"%v">>, message |-> <<>>],
     [format |-> <<"%v">>, message |-> <<"x", "y">>]}

\* the functions above the logging operation on the goroutine's stack; with
\* <<>> the operation itself was started with a go statement
Handler == <<"example.com", "app", "svc.Handle">>
Main == <<"main.main">>
Stacks == {<<>>, <<Handler, Main>>}
Goexit == <<"runtime.goexit">>

\* what a stream's Write returns
OutErrs == {Nil, "out: write failed"}
ErrErrs == {Nil, "err: write failed"}

\* the orders in which a map iteration can yield the names of S
Orders(S) ==
    {o \in [1..Cardinality(S) -> S] : \A i, j \in 1..Cardinality(S) : i # j => o[i] # o[j]}

\* the stack of a call: Logf, the public operation that called it (unless the
\* operation is Logf), the caller's functions, the goroutine's bottom frame
Method(op) == <<"github.com", "foresthoffman", "loggy.(*logger)." \o op>>

Frames(op, stack) ==
    <<Method("Logf")>> \o (IF op = "Logf" THEN <<>> ELSE <<Method(op)>>) \o stack \o <<Goexit>>

NoCall ==
    [op |-> "none", ctx |-> 0, severity |-> 0, stack |-> <<>>, outErr |-> Nil, errErr |-> Nil,
     sev |-> 0,
     capture |-> "none", writes |-> <<>>, ret |-> Nil, fatal |-> <<>>, exit |-> FALSE]

\* tag names and values a caller passes
Names == {"", "a", "b"}
Values == {"1", "2"}

\* no format and values of a call kept
NoPayload == [format |-> <<>>, message |-> <<>>]

\* context.Background(), the first context
Background == 1

\* sync.Mutex: unlocked, or the goroutine that holds it
Unlocked == "unlocked"

\* no goroutine besides the caller's
NoThreads == <<>>

\* no Write made on a Writer yet
NoWrite ==
    [p |-> <<>>, handler |-> "none", mode |-> "all", n |-> 0, err |-> Nil, handled |-> 0,
     given |-> <<>>, herr |-> Nil, before |-> <<>>]

\* before: the mapping ctx carried when the operation was called
NoTagCall ==
    [op |-> "none", ctx |-> 0, name |-> "", value |-> Nil, before |-> EmptyMap,
     retCtx |-> 0, retTags |-> EmptyMap, retValue |-> Nil]

\* number of lines a call's writes delivered to a stream
Delivered(writes, stream) ==
    Cardinality({i \in 1..Len(writes) : writes[i].stream = stream /\ writes[i].err = Nil})

(***************************************************************************)
(* The logging operations.  A call runs to its end: it returns, or the     *)
(* process exits inside it.                                                 *)
(***************************************************************************)
LogStep(op, ctx, severity, format, message, stack) ==
    /\ ~exited
    /\ call.op = "none" /\ tagCall.op = "none"
    /\ outLines < MaxLines /\ errLines < MaxLines
    /\ \E outErr \in OutErrs, errErr \in ErrErrs, order \in Orders(DOMAIN Tags(ctx)) :
         \E r \in {Logf(ctx, severity, format, message, Frames(op, stack), order,
                        outErr, errErr)} :
             /\ call' = [op |-> op, ctx |-> ctx, severity |-> severity, stack |-> stack,
                         outErr |-> outErr, errErr |-> errErr,
                         sev |-> r.sev, capture |-> r.capture,
                         writes |-> r.writes, ret |-> r.ret, fatal |-> r.fatal,
                         exit |-> r.exit]
             /\ outLines' = outLines + Delivered(r.writes, "Out")
             /\ errLines' = errLines + Delivered(r.writes, "Err")
             /\ stdLogLines' = stdLogLines + Len(r.fatal)
             /\ exited' = r.exit
    /\ UNCHANGED <<opts, ctxStore, heap, tagCall, seqVars, concVars, writerVars>>

\* a logging call whose format and values are not kept
LogCall(op, ctx, severity, format, message, stack) ==
    /\ LogStep(op, ctx, severity, format, message, stack)
    /\ UNCHANGED payload

\* the caller has taken what the operation returned and goes on
Resume ==
    /\ ~exited
    /\ call.op # "none" \/ tagCall.op # "none"
    /\ call' = NoCall
    /\ tagCall' = NoTagCall
    /\ payload' = NoPayload
    /\ UNCHANGED <<opts, ctxStore, heap, outLines, errLines, stdLogLines, exited>>
    /\ UNCHANGED <<seqVars, concVars, writerVars>>

Log ==
    \E ctx \in DOMAIN ctxStore, severity \in Severities, message \in Messages,
       stack \in Stacks :
        LogCall("Log", ctx, severity, <<>>, message, stack)

LogfOp ==
    \E ctx \in DOMAIN ctxStore, severity \in Severities, p \in Payloads, stack \in Stacks :
        LogCall("Logf", ctx, severity, p.format, p.message, stack)

Std ==
    \E ctx \in DOMAIN ctxStore, message \in Messages, stack \in Stacks :
        LogCall("Std", ctx, LevelStd, <<>>, message, stack)

Stdf ==
    \E ctx \in DOMAIN ctxStore, p \in Payloads, stack \in Stacks :
        LogCall("Stdf", ctx, LevelStd, p.format, p.message, stack)

Critical ==
    \E ctx \in DOMAIN ctxStore, message \in Messages, stack \in Stacks :
        LogCall("Critical", ctx, LevelCritical, <<>>, message, stack)

Criticalf ==
    \E ctx \in DOMAIN ctxStore, p \in Payloads, stack \in Stacks :
        LogCall("Criticalf", ctx, LevelCritical, p.format, p.message, stack)

Warning ==
    \E ctx \in DOMAIN ctxStore, message \in Messages, stack \in Stacks :
        LogCall("Warning", ctx, LevelWarning, <<>>, message, stack)

Warningf ==
    \E ctx \in DOMAIN ctxStore, p \in Payloads, stack \in Stacks :
        LogCall("Warningf", ctx, LevelWarning, p.format, p.message, stack)

Info ==
    \E ctx \in DOMAIN ctxStore, message \in Messages, stack \in Stacks :
        LogCall("Info", ctx, LevelInfo, <<>>, message, stack)

Infof ==
    \E ctx \in DOMAIN ctxStore, p \in Payloads, stack \in Stacks :
        LogCall("Infof", ctx, LevelInfo, p.format, p.message, stack)

Debug ==
    \E ctx \in DOMAIN ctxStore, message \in Messages, stack \in Stacks :
        LogCall("Debug", ctx, LevelDebug, <<>>, message, stack)

Debugf ==
    \E ctx \in DOMAIN ctxStore, p \in Payloads, stack \in Stacks :
        LogCall("Debugf", ctx, LevelDebug, p.format, p.message, stack)

(***************************************************************************)
(* Specification of the logging operations: a logger built by New from     *)
(* options that set the streams and any threshold, LogFatal and            *)
(* DisableFunctionName; the context is context.Background().               *)
(***************************************************************************)
LogOptionInputs ==
    {[ZeroOptions EXCEPT !.Out = "stdout", !.Err = "stderr", !.Threshold = t,
                         !.LogFatal = f, !.DisableFunctionName = d] :
        t \in Thresholds, f \in BOOLEAN, d \in BOOLEAN}

Init ==
    /\ opts \in {New(o) : o \in LogOptionInputs}
    /\ ctxStore = <<NoStore>>
    /\ heap = <<>>
    /\ outLines = 0
    /\ errLines = 0
    /\ stdLogLines = 0
    /\ exited = FALSE
    /\ call = NoCall
    /\ tagCall = NoTagCall
    /\ chain = Background /\ added = <<>>
    /\ mux = Unlocked /\ threads = NoThreads
    /\ sink = <<>> /\ wcall = NoWrite
    /\ payload = NoPayload

Next ==
    \/ Log
    \/ LogfOp
    \/ Std
    \/ Stdf
    \/ Critical
    \/ Criticalf
    \/ Warning
    \/ Warningf
    \/ Info
    \/ Infof
    \/ Debug
    \/ Debugf
    \/ Resume

Spec == Init /\ [][Next]_vars

(***************************************************************************)
(* The tag operations                                                      *)
(***************************************************************************)
TagStep(op, ctx, name, value, r, retValue) ==
    /\ ~exited
    /\ call.op = "none" /\ tagCall.op = "none"
    /\ Len(r.ctxStore) <= MaxCtx
    /\ tagCall' = [op |-> op, ctx |-> ctx, name |-> name, value |-> value,
                   before |-> Tags(ctx), retCtx |-> r.ctx, retTags |-> r.tags,
                   retValue |-> retValue]
    /\ ctxStore' = r.ctxStore
    /\ heap' = r.heap
    /\ UNCHANGED <<opts, outLines, errLines, stdLogLines, exited, call>>
    /\ UNCHANGED <<concVars, writerVars, payload>>

\* a tag operation called by a caller that does not thread its context
TagCall(op, ctx, name, value, r, retValue) ==
    /\ TagStep(op, ctx, name, value, r, retValue)
    /\ UNCHANGED seqVars

\* what an operation that only reads returns, in the shape of ChangeTags
ReadOnly(ctx) == [tags |-> Tags(ctx), ctx |-> ctx, ctxStore |-> ctxStore, heap |-> heap]

TagsOp ==
    \E ctx \in DOMAIN ctxStore :
        TagCall("Tags", ctx, "", Nil, ReadOnly(ctx), Nil)

TagOp ==
    \E ctx \in DOMAIN ctxStore, name \in Names :
        TagCall("Tag", ctx, name, Nil, ReadOnly(ctx), Tag(ctx, name))

AddTag ==
    \E ctx \in DOMAIN ctxStore, name \in Names, value \in Values :
        TagCall("AddTag", ctx, name, value, AddTagResult(ctx, name, value), Nil)

RemoveTag ==
    \E ctx \in DOMAIN ctxStore, name \in Names :
        TagCall("RemoveTag", ctx, name, Nil, RemoveTagResult(ctx, name), Nil)

(***************************************************************************)
(* Specification of the tag operations: a logger built by New from the     *)
(* zero Options, and context.Background(); every call derives its context  *)
(* from one that exists.                                                    *)
(***************************************************************************)
InitTags ==
    /\ opts = New(ZeroOptions)
    /\ ctxStore = <<NoStore>>
    /\ heap = <<>>
    /\ outLines = 0
    /\ errLines = 0
    /\ stdLogLines = 0
    /\ exited = FALSE
    /\ call = NoCall
    /\ tagCall = NoTagCall
    /\ chain = Background /\ added = <<>>
    /\ mux = Unlocked /\ threads = NoThreads
    /\ sink = <<>> /\ wcall = NoWrite
    /\ payload = NoPayload

NextTags ==
    \/ TagsOp
    \/ TagOp
    \/ AddTag
    \/ RemoveTag
    \/ Resume

SpecTags == InitTags /\ [][NextTags]_vars

(***************************************************************************)
(* Specification of a sequential series of AddTag calls: the caller passes *)
(* to each call the context the call before returned, starting from        *)
(* context.Background() (as TestLogger_Tags does).                          *)
(***************************************************************************)
AddTagThreaded ==
    /\ Len(added) < MaxAdds
    /\ \E name \in Names, value \in Values :
         \E r \in {AddTagResult(chain, name, value)} :
             /\ TagStep("AddTag", chain, name, value, r, Nil)
             /\ chain' = r.ctx
             /\ added' = Append(added, <<name, value>>)

NextAddTags ==
    \/ AddTagThreaded
    \/ Resume

SpecAddTags == InitTags /\ [][NextAddTags]_vars

(***************************************************************************)
(* Specification of the rendering: a logger with the threshold Debug and   *)
(* any Prefix, DisableTimestamps, DisableFunctionName and DisableTags, and *)
(* the contexts left by RemoveTag(bg, "a"), AddTag(bg, "a", "1"),          *)
(* c = AddTag(bg, "a", "1") and AddTag(c, "b", "2"): without mapping, with *)
(* an empty one, with one tag and (twice) with two tags.                   *)
(***************************************************************************)
RenderOptionInputs ==
    {[ZeroOptions EXCEPT !.Out = "stdout", !.Err = "stderr", !.Threshold = LevelDebug,
                         !.Prefix = p, !.DisableTimestamps = t,
                         !.DisableFunctionName = f, !.DisableTags = g] :
        p \in {<<>>, <<"~~~">>}, t \in BOOLEAN, f \in BOOLEAN, g \in BOOLEAN}

RenderContexts == <<NoStore, 1, 2, 3, 3>>

RenderMappings == <<EmptyMap, "a" :> "1", ("a" :> "1") @@ ("b" :> "2")>>

InitRender ==
    /\ opts \in {New(o) : o \in RenderOptionInputs}
    /\ ctxStore = RenderContexts
    /\ heap = RenderMappings
    /\ outLines = 0
    /\ errLines = 0
    /\ stdLogLines = 0
    /\ exited = FALSE
    /\ call = NoCall
    /\ tagCall = NoTagCall
    /\ chain = Background /\ added = <<>>
    /\ mux = Unlocked /\ threads = NoThreads
    /\ sink = <<>> /\ wcall = NoWrite
    /\ payload = NoPayload

NextRender ==
    \/ Std
    \/ Stdf
    \/ Critical
    \/ Resume

SpecRender == InitRender /\ [][NextRender]_vars

(***************************************************************************)
(* Specification of Logf with an explicit format: the loggers and contexts *)
(* of the rendering, and Logf called with as many %v, joined by single     *)
(* spaces, as it is given values; the format and the values are kept.      *)
(***************************************************************************)
\* n times %v, joined by single spaces
RECURSIVE Joined(_)
Joined(n) ==
    IF n = 0 THEN <<>>
    ELSE IF n = 1 THEN <<"%v">>
    ELSE Joined(n - 1) \o <<" ", "%v">>

LogfJoined ==
    \E ctx \in DOMAIN ctxStore, severity \in {LevelStd, LevelCritical},
       message \in Messages \ {<<>>}, stack \in Stacks :
        /\ LogStep("Logf", ctx, severity, Joined(Len(message)), message, stack)
        /\ payload' = [format |-> Joined(Len(message)), message |-> message]

NextFormat ==
    \/ LogfJoined
    \/ Resume

SpecFormat == InitRender /\ [][NextFormat]_vars

(***************************************************************************)
(* writer.go.  A byte slice is a sequence of lines (what bytes.Split yields *)
(* in the handlers of the tests), a line counting as one unit of length.   *)
(***************************************************************************)
\* what the inner sink does with a Write: takes all of it, fails, or takes less
SinkModes == {"all", "fail", "short"}

\* out.Write(p): what the sink took, and the n and err it returned
SinkWrite(mode, p) ==
    LET taken == IF mode = "all" THEN p
                 ELSE IF mode = "short" THEN SubSeq(p, 1, Len(p) - 1)
                 ELSE <<>>
    IN  [taken |-> taken, n |-> Len(taken),
         err |-> IF mode = "fail" THEN "sink: write failed" ELSE Nil]

\* DefaultWriteFn: the error of out.Write(p), its n is not looked at
DefaultWriteFn(mode, p) ==
    [taken |-> SinkWrite(mode, p).taken, err |-> SinkWrite(mode, p).err]

\* the handlers of writeTestCases: each line with the word is written to the
\* sink; the first failed or short Write ends the handler with an error
RECURSIVE LinesWith(_, _, _)
LinesWith(word, mode, lines) ==
    IF lines = <<>> THEN [taken |-> <<>>, err |-> Nil]
    ELSE IF Head(lines) # word THEN LinesWith(word, mode, Tail(lines))
    ELSE LET w == SinkWrite(mode, <<Head(lines)>>)
             rest == LinesWith(word, mode, Tail(lines))
         IN  IF w.err # Nil THEN [taken |-> w.taken, err |-> w.err]
             ELSE IF w.n < 1 THEN [taken |-> w.taken, err |-> "must write whole line"]
             ELSE [taken |-> w.taken \o rest.taken, err |-> rest.err]

WriteFns == {"DefaultWriteFn", "INFO", "ERROR"}

\* w.handler(w.out, p)
Handle(handler, mode, p) ==
    IF handler = "DefaultWriteFn" THEN DefaultWriteFn(mode, p)
    ELSE LinesWith(handler, mode, p)

\* mutant: the length is returned along with the error
WriterWriteCountsOnError(handler, mode, p) ==
    IF Len(p) = 0
    THEN [n |-> 0, err |-> Nil, taken |-> <<>>, handled |-> 0, given |-> <<>>, herr |-> Nil]
    ELSE [n |-> Len(p), err |-> Handle(handler, mode, p).err,
          taken |-> Handle(handler, mode, p).taken, handled |-> 1, given |-> p,
          herr |-> Handle(handler, mode, p).err]

\* Writer.Write(p): n and err returned, what the sink took, how often the
\* handler was called, with what, and what it returned
WriterWrite(handler, mode, p) ==
    IF Len(p) = 0
    THEN [n |-> 0, err |-> Nil, taken |-> <<>>, handled |-> 0, given |-> <<>>, herr |-> Nil]
    ELSE LET h == Handle(handler, mode, p) IN
         IF h.err # Nil
         THEN [n |-> 0, err |-> h.err, taken |-> h.taken, handled |-> 1, given |-> p,
               herr |-> h.err]
         ELSE [n |-> Len(p), err |-> Nil, taken |-> h.taken, handled |-> 1, given |-> p,
               herr |-> Nil]

\* the byte slices given to Write
WriterInputs ==
    {<<>>, <<"INFO">>, <<"ERROR">>, <<"ERROR", "INFO">>, <<"INFO", "INFO">>}

Write ==
    /\ Len(sink) < MaxSink
    /\ \E p \in WriterInputs, handler \in WriteFns, mode \in SinkModes :
         \E r \in {WriterWrite(handler, mode, p)} :
             /\ wcall' = [p |-> p, handler |-> handler, mode |-> mode, n |-> r.n,
                          err |-> r.err, handled |-> r.handled, given |-> r.given,
                          herr |-> r.herr, before |-> sink]
             /\ sink' = sink \o r.taken
    /\ UNCHANGED <<opts, ctxStore, heap, outLines, errLines, stdLogLines, exited, call, tagCall>>
    /\ UNCHANGED <<seqVars, concVars, payload>>

\* NewWriter(stdout, fn) on an empty buffer, as TestWriter_Write does
InitWriter ==
    /\ opts = New(ZeroOptions)
    /\ ctxStore = <<NoStore>>
    /\ heap = <<>>
    /\ outLines = 0
    /\ errLines = 0
    /\ stdLogLines = 0
    /\ exited = FALSE
    /\ call = NoCall
    /\ tagCall = NoTagCall
    /\ chain = Background /\ added = <<>>
    /\ mux = Unlocked /\ threads = NoThreads
    /\ sink = <<>> /\ wcall = NoWrite
    /\ payload = NoPayload

NextWriter ==
    \/ Write

SpecWriter == InitWriter /\ [][NextWriter]_vars

(***************************************************************************)
(* Concurrent calls.  Each goroutine makes one call on the same logger; a  *)
(* call runs statement by statement, pc naming the statement it is at:     *)
(*   lock    l.mux.Lock()                                                  *)
(*   lookup  tags, ok := ctx.Value(TagsContextKey), make(map) if !ok       *)
(*   read    tags[name]                      (Tag)                         *)
(*   store   tags[name] = value, or delete(tags, name), and WithValue      *)
(*   unlock  l.mux.Unlock()                  (deferred: at the return)     *)
(*   len     len(tags) > 0                   (Logf, after l.Tags returned) *)
(*   range   one iteration of `for name, value := range tags`   (Logf)     *)
(*   write   the stream's Write is in progress                  (Logf)     *)
(***************************************************************************)
Threads == {"g1", "g2"}

IdleThread ==
    [op |-> "none", pc |-> "idle", ctx |-> 0, name |-> "", value |-> Nil, tags |-> NoStore,
     todo |-> {}, retCtx |-> 0]

\* mutant: Lock does not wait
MuxFreeAlways(m) == TRUE

\* l.mux.Lock() returns when the mutex is free
MuxFree(m) == m = Unlocked

\* mutant: Logf holds the mutex for its whole duration instead of calling l.Tags
NextPcLockedLogf(op, pc, ok, name, left) ==
    CASE pc = "lock" -> "lookup"
      [] pc = "lookup" ->
            IF op = "Log" THEN "len"
            ELSE IF op = "Tags" THEN "unlock"
            ELSE IF op = "Tag" THEN (IF ok THEN "read" ELSE "unlock")
            ELSE IF name # "" THEN "store" ELSE "unlock"
      [] pc = "read" -> "unlock"
      [] pc = "store" -> "unlock"
      [] pc = "unlock" -> "done"
      [] pc = "len" -> IF left > 0 THEN "range" ELSE "write"
      [] pc = "range" -> IF left > 0 THEN "range" ELSE "write"
      [] pc = "write" -> IF op = "Log" THEN "unlock" ELSE "done"

\* the statement after the one at pc: ok is what the lookup found, left the
\* number of entries the range has yet to yield
NextPc(op, pc, ok, name, left) ==
    CASE pc = "lock" -> "lookup"
      [] pc = "lookup" ->
            IF op \in {"Tags", "Log"} THEN "unlock"
            ELSE IF op = "Tag" THEN (IF ok THEN "read" ELSE "unlock")
            ELSE IF name # "" THEN "store" ELSE "unlock"
      [] pc = "read" -> "unlock"
      [] pc = "store" -> "unlock"
      [] pc = "unlock" -> IF op = "Log" THEN "len" ELSE "done"
      [] pc = "len" -> IF left > 0 THEN "range" ELSE "write"
      [] pc = "range" -> IF left > 0 THEN "range" ELSE "write"
      [] pc = "write" -> "done"

\* goroutine t goes on to its next statement
Advance(t, ok, left) ==
    [threads[t] EXCEPT !.pc = NextPc(threads[t].op, threads[t].pc, ok, threads[t].name, left)]

\* the goroutines other than t that are reading or iterating, or writing, the
\* mapping m
Readers(t, m) ==
    {u \in Threads \ {t} : threads[u].tags = m /\ threads[u].pc \in {"read", "len", "range"}}

Writers(t, m) ==
    {u \in Threads \ {t} : threads[u].tags = m /\ threads[u].pc = "store"}

ConcFrame ==
    UNCHANGED <<opts, errLines, stdLogLines, call, tagCall, seqVars, writerVars, payload>>

\* a goroutine calls an operation of the logger
Call(t) ==
    /\ ~exited
    /\ threads[t].pc = "idle"
    /\ \E op \in {"Tags", "Tag", "AddTag", "RemoveTag", "Log"}, ctx \in DOMAIN ctxStore,
          name \in Names, value \in Values :
         /\ op \in {"Tags", "Log"} => name = ""
         /\ op # "AddTag" => value = "1"
         /\ threads' = [threads EXCEPT ![t] =
                [IdleThread EXCEPT !.op = op, !.pc = "lock", !.ctx = ctx, !.name = name,
                                   !.value = IF op = "AddTag" THEN value ELSE Nil]]
    /\ UNCHANGED <<ctxStore, heap, outLines, exited, mux>>
    /\ ConcFrame

Lock(t) ==
    /\ ~exited
    /\ threads[t].pc = "lock"
    /\ MuxFree(mux)
    /\ mux' = t
    /\ threads' = [threads EXCEPT ![t] = Advance(t, TRUE, 0)]
    /\ UNCHANGED <<ctxStore, heap, outLines, exited>>
    /\ ConcFrame

\* the type assertion on ctx.Value; every operation but Tag makes a new mapping
\* when there is none
LookupStep(t) ==
    /\ ~exited
    /\ threads[t].pc = "lookup"
    /\ LET found == CtxValue(threads[t].ctx).ok
           made == ~found /\ threads[t].op # "Tag"
       IN  /\ heap' = IF made THEN Append(heap, EmptyMap) ELSE heap
           /\ threads' = [threads EXCEPT ![t] =
                  [Advance(t, found, 0) EXCEPT
                      !.tags = IF found THEN ctxStore[threads[t].ctx]
                               ELSE IF made THEN Len(heap) + 1 ELSE NoStore]]
    /\ UNCHANGED <<ctxStore, outLines, exited, mux>>
    /\ ConcFrame

\* Tag: tags[name]
Read(t) ==
    /\ ~exited
    /\ threads[t].pc = "read"
    /\ threads' = [threads EXCEPT ![t] = Advance(t, TRUE, 0)]
    /\ UNCHANGED <<ctxStore, heap, outLines, exited, mux>>
    /\ ConcFrame

\* AddTag / RemoveTag: the change of the mapping and the derived context.  When
\* another goroutine is reading, iterating or writing the same mapping, this is a
\* data race: the runtime may stop the process (fatal error: concurrent map
\* iteration and map write / concurrent map writes), or go on, an iteration in
\* progress seeing the change or not.
Store(t) ==
    /\ ~exited
    /\ threads[t].pc = "store"
    /\ LET m == threads[t].tags
           name == threads[t].name
           changed == IF threads[t].op = "AddTag"
                      THEN Insert(heap[m], name, threads[t].value)
                      ELSE Delete(heap[m], name)
           racing == Readers(t, m) \cup Writers(t, m)
       IN  \/ /\ racing # {}
              /\ exited' = TRUE
              /\ UNCHANGED <<threads, heap, ctxStore>>
           \/ /\ exited' = exited
              /\ heap' = [heap EXCEPT ![m] = changed]
              /\ ctxStore' = Append(ctxStore, m)
              /\ \E seen \in BOOLEAN :
                    /\ seen => Readers(t, m) # {}
                    /\ threads' = [u \in Threads |->
                          IF u = t
                          THEN [Advance(t, TRUE, 0) EXCEPT !.retCtx = Len(ctxStore) + 1]
                          ELSE IF u \in Readers(t, m) /\ threads[u].pc = "range" /\ seen
                          THEN [threads[u] EXCEPT !.todo =
                                   IF threads[t].op = "AddTag" THEN @ \cup {name}
                                   ELSE IF @ \ {name} = {} THEN @ ELSE @ \ {name}]
                          ELSE threads[u]]
    /\ UNCHANGED <<outLines, mux>>
    /\ ConcFrame

\* the deferred l.mux.Unlock()
Unlock(t) ==
    /\ ~exited
    /\ threads[t].pc = "unlock"
    /\ mux' = Unlocked
    /\ threads' = [threads EXCEPT ![t] = Advance(t, TRUE, 0)]
    /\ UNCHANGED <<ctxStore, heap, outLines, exited>>
    /\ ConcFrame

\* Logf: `len(tags) > 0`, and the start of the range over the mapping
LenStep(t) ==
    /\ ~exited
    /\ threads[t].pc = "len"
    /\ LET names == DOMAIN heap[threads[t].tags] IN
       threads' = [threads EXCEPT ![t] =
           [Advance(t, TRUE, Cardinality(names)) EXCEPT !.todo = names]]
    /\ UNCHANGED <<ctxStore, heap, outLines, exited, mux>>
    /\ ConcFrame

\* Logf: one iteration of the range, yielding an entry not yet yielded
Range(t) ==
    /\ ~exited
    /\ threads[t].pc = "range"
    /\ \E name \in threads[t].todo :
         threads' = [threads EXCEPT ![t] =
             [Advance(t, TRUE, Cardinality(threads[t].todo) - 1) EXCEPT !.todo = @ \ {name}]]
    /\ UNCHANGED <<ctxStore, heap, outLines, exited, mux>>
    /\ ConcFrame

\* Logf: the stream's Write returns, the line written
WriteReturn(t) ==
    /\ ~exited
    /\ threads[t].pc = "write"
    /\ outLines' = outLines + 1
    /\ threads' = [threads EXCEPT ![t] = Advance(t, TRUE, 0)]
    /\ UNCHANGED <<ctxStore, heap, exited, mux>>
    /\ ConcFrame

(***************************************************************************)
(* Specification of the concurrent calls: a logger built by New from the   *)
(* zero Options (a Standard message is accepted, tags are rendered), and   *)
(* the contexts context.Background() and the one AddTag(bg, "b", "1")      *)
(* returned.                                                               *)
(***************************************************************************)
ConcContexts == <<NoStore, 1>>

ConcMappings == <<"b" :> "1">>

InitConc ==
    /\ opts = New(ZeroOptions)
    /\ ctxStore = ConcContexts
    /\ heap = ConcMappings
    /\ outLines = 0
    /\ errLines = 0
    /\ stdLogLines = 0
    /\ exited = FALSE
    /\ call = NoCall
    /\ tagCall = NoTagCall
    /\ chain = Background /\ added = <<>>
    /\ mux = Unlocked /\ threads = [t \in Threads |-> IdleThread]
    /\ sink = <<>> /\ wcall = NoWrite
    /\ payload = NoPayload

\* the steps of goroutine t, but for the return of a stream Write
Step(t) ==
    \/ Call(t)
    \/ Lock(t)
    \/ LookupStep(t)
    \/ Read(t)
    \/ Store(t)
    \/ Unlock(t)
    \/ LenStep(t)
    \/ Range(t)

NextConc ==
    \/ \E t \in Threads : Step(t)
    \/ \E t \in Threads : WriteReturn(t)

SpecConc == InitConc /\ [][NextConc]_vars

\* the scheduler runs every goroutine that can take a step; a stream Write may
\* take for ever
SpecConcFair == SpecConc /\ \A t \in Threads : WF_vars(Step(t))

(***************************************************************************)
(* Properties of the logging operations                                    *)
(***************************************************************************)
Declared == LevelStd..LevelDebug

\* the positions of a call's writes of a kind, and on a stream
WritesOfKind(c, kind) == {i \in 1..Len(c.writes) : c.writes[i].kind = kind}
WritesOn(c, stream) == {i \in 1..Len(c.writes) : c.writes[i].stream = stream}

\* no Write of the call returned an error
NoWriteFailed(c) == \A i \in 1..Len(c.writes) : c.writes[i].err = Nil

\* the message line of the call was written to the stream and the Write succeeded
MessageDelivered(c, stream) ==
    \E i \in WritesOfKind(c, "message") :
        c.writes[i].stream = stream /\ c.writes[i].err = Nil

\* the tokens of a line
Tokens(line) == {line[i] : i \in 1..Len(line)}

\* C1: with a threshold < 0, whatever the calls made so far and whatever their
\* severity, no call attempts a Write and neither stream has received a line.
C1_DisabledNeverWrites ==
    opts.Threshold < 0 => (outLines = 0 /\ errLines = 0 /\ call.writes = <<>>)

\* a call with an undeclared severity has run on a disabled logger
C1_Witness ==
    opts.Threshold < 0 /\ call.op = "Logf" /\ call.severity > LevelDebug

\* C2: for every threshold >= 0 a call with severity Standard is not filtered:
\* it goes on to the streams, and when no Write of the call fails its line is
\* delivered to the output stream.
C2_StandardAlwaysEmitted ==
    (call.op # "none" /\ opts.Threshold >= 0 /\ call.severity = LevelStd)
        => /\ call.writes # <<>>
           /\ NoWriteFailed(call) => MessageDelivered(call, "Out")

\* Standard was logged with the lowest and with a high threshold
C2_Witness ==
    /\ call.op = "Std" /\ opts.Threshold = LevelStd
    /\ MessageDelivered(call, "Out")

\* C3: for a declared severity S other than Standard and a threshold T >= 0 the
\* call is filtered (no Write at all) iff S > T; when S <= T and no Write of the
\* call fails, its line is delivered.
C3_EmittedIffAtMostThreshold ==
    (call.op # "none" /\ opts.Threshold >= 0 /\ call.severity \in Declared \ {LevelStd})
        => /\ (call.writes # <<>>) <=> (call.severity <= opts.Threshold)
           /\ (call.severity <= opts.Threshold /\ NoWriteFailed(call))
                  => \E stream \in {"Out", "Err"} : MessageDelivered(call, stream)

\* a severity equal to the threshold was emitted
C3_Witness ==
    /\ call.op = "Critical" /\ opts.Threshold = LevelCritical
    /\ MessageDelivered(call, "Err")

\* C4 as stated: whatever the threshold, a call of severity Critical, Error or
\* Warning writes to the error stream only and a call of severity Standard, Info
\* or Debug writes to the output stream only.
C4_Original ==
    (call.op # "none" /\ call.severity \in Declared)
        => IF call.severity \in {LevelCritical, LevelError, LevelWarning}
           THEN WritesOn(call, "Out") = {}
           ELSE WritesOn(call, "Err") = {}

\* C4 amended: the message line of a call is written to the stream its severity
\* selects, whatever the threshold: Critical, Error and Warning to the error
\* stream, and nothing is written to the output stream; Standard, Info and Debug
\* to the output stream, and the only thing such a call writes to the error stream
\* is the diagnostic of a failed function-name lookup.
C4_RoutingBySeverity ==
    (call.op # "none" /\ call.severity \in Declared)
        => IF call.severity \in {LevelCritical, LevelError, LevelWarning}
           THEN WritesOn(call, "Out") = {}
           ELSE /\ WritesOfKind(call, "message") \subseteq WritesOn(call, "Out")
                /\ WritesOn(call, "Err") \subseteq WritesOfKind(call, "diagnostic")
                /\ WritesOn(call, "Err") # {} => call.capture = "failed"

\* an Info call whose lookup failed wrote the diagnostic and then its line
C4_Witness ==
    /\ call.severity = LevelInfo /\ call.capture = "failed"
    /\ WritesOn(call, "Err") = {1} /\ WritesOn(call, "Out") = {2}

\* C5: a call whose severity is not a declared one is treated as Standard: for
\* every threshold >= 0 it is not filtered, and when no Write of the call fails
\* its line, labelled OUT, is delivered to the output stream.
C5_UndeclaredIsStandard ==
    (call.op # "none" /\ opts.Threshold >= 0 /\ call.severity \notin Declared)
        => /\ call.writes # <<>>
           /\ NoWriteFailed(call)
                  => \E i \in WritesOfKind(call, "message") :
                         /\ call.writes[i].stream = "Out"
                         /\ "OUT" \in Tokens(call.writes[i].line)

\* C6: a call that is accepted and whose function-name lookup is disabled or
\* succeeds makes exactly one Write call, for its message line.
C6_ExactlyOneWrite ==
    (call.op # "none" /\ call.capture \in {"disabled", "ok"})
        => /\ Len(call.writes) = 1
           /\ call.writes[1].kind = "message"
           /\ Cardinality({s \in {"Out", "Err"} : WritesOn(call, s) # {}}) = 1

\* an accepted Warning call with a function name wrote once, to the error stream
C6_Witness ==
    /\ call.op = "Warning" /\ call.capture = "ok"
    /\ WritesOn(call, "Err") = {1} /\ WritesOn(call, "Out") = {}

\* C7: with LogFatal off, a call that writes its message line makes one Write for
\* it and returns what that Write returned: the same error, or nil; the process
\* keeps running.
C7_WriteErrorReturned ==
    (call.op # "none" /\ ~opts.LogFatal /\ WritesOfKind(call, "message") # {})
        => /\ Cardinality(WritesOfKind(call, "message")) = 1
           /\ \A i \in WritesOfKind(call, "message") :
                  call.ret = (IF call.writes[i].stream = "Out" THEN call.outErr
                              ELSE call.errErr)
           /\ ~exited

\* a Standard call returned the error of the output stream
C7_Witness ==
    /\ ~opts.LogFatal /\ call.op = "Std" /\ call.ret = "out: write failed"
    /\ ~exited

\* C8: with LogFatal on, a call one of whose Writes fails does not return and the
\* process has exited; once exited, no step is taken.
C8_FatalTerminates ==
    /\ []((call.op # "none" /\ opts.LogFatal /\ ~NoWriteFailed(call))
              => (exited /\ call.ret = NoReturn /\ call.exit))
    /\ [][~exited]_vars

\* the process exited inside a call whose Write failed
C8_Witness ==
    /\ opts.LogFatal /\ exited /\ call.ret = NoReturn /\ stdLogLines = 1
    /\ ~NoWriteFailed(call)

\* the severity the specification gives a call: Standard for an undeclared one
SeverityOf(c) == IF c.severity \in Declared THEN c.severity ELSE LevelStd

\* C9: a call that is filtered out (threshold < 0, or a severity other than
\* Standard above the threshold) returns nil and attempts no Write, whatever the
\* streams would return and whether or not LogFatal is on.
C9_FilteredIsSilent ==
    (/\ call.op # "none"
     /\ \/ opts.Threshold < 0
        \/ SeverityOf(call) # LevelStd /\ SeverityOf(call) > opts.Threshold)
        => (call.ret = Nil /\ call.writes = <<>> /\ call.fatal = <<>> /\ ~exited)

\* a filtered Logf call started by a go statement (its lookup would fail), with
\* both streams failing and LogFatal on
C9_Witness ==
    /\ call.op = "Logf" /\ call.stack = <<>> /\ ~opts.DisableFunctionName
    /\ opts.Threshold = LevelStd /\ call.severity = LevelDebug
    /\ opts.LogFatal /\ call.outErr # Nil /\ call.errErr # Nil
    /\ call.ret = Nil

\* the stream the specification selects for a call's message
SelectedStream(c) ==
    IF SeverityOf(c) \in {LevelCritical, LevelError, LevelWarning} THEN "Err" ELSE "Out"

\* the function names a line can show
FunctionNames == {ShortName(f)[1] : f \in {Handler, Main, Goexit}}

\* the first Write of the call is the Critical diagnostic, on the error stream
DiagnosticFirst(c) ==
    /\ c.writes # <<>>
    /\ c.writes[1].kind = "diagnostic" /\ c.writes[1].stream = "Err"
    /\ "CRIT" \in Tokens(c.writes[1].line)
    /\ WritesOfKind(c, "diagnostic") = {1}

\* its last Write is the message, without function name, on the selected stream
MessageAfterDiagnostic(c) ==
    /\ Len(c.writes) = 2
    /\ c.writes[2].kind = "message" /\ c.writes[2].stream = SelectedStream(c)
    /\ Tokens(c.writes[2].line) \cap FunctionNames = {}

\* C18 as stated: a call whose function-name lookup fails writes the Critical
\* diagnostic to the error stream and then, always, its message without function
\* name to the stream of its severity.
C18_Original ==
    (call.op # "none" /\ call.capture = "failed")
        => (DiagnosticFirst(call) /\ MessageAfterDiagnostic(call))

\* C18 amended: a call whose function-name lookup fails writes the Critical
\* diagnostic to the error stream; when that Write succeeds it then writes its
\* message, without function name, to the stream of its severity; when that
\* Write fails the message is not written: with LogFatal off the call returns the
\* error of the Write, with LogFatal on the process exits.
C18_DiagnosticThenMessage ==
    (call.op # "none" /\ call.capture = "failed")
        => /\ DiagnosticFirst(call)
           /\ IF call.writes[1].err = Nil
              THEN MessageAfterDiagnostic(call)
              ELSE /\ Len(call.writes) = 1
                   /\ IF opts.LogFatal
                      THEN exited /\ call.ret = NoReturn
                      ELSE ~exited /\ call.ret = call.errErr

\* the lookup of a Critical call failed, the diagnostic could not be written and
\* the call returned the error without writing its message
C18_Witness ==
    /\ call.op = "Logf" /\ call.severity = LevelCritical /\ call.capture = "failed"
    /\ ~opts.LogFatal /\ call.ret = "err: write failed"
    /\ WritesOfKind(call, "message") = {}

(***************************************************************************)
(* Properties of the tag operations                                        *)
(***************************************************************************)
\* what Tag returns for a name, read from a mapping
Lookup(tags, name) == IF name \in DOMAIN tags THEN tags[name] ELSE Nil

\* C10: after AddTag(ctx, k, v) with a name k, Tag(ctx2, k) on the returned
\* context is v; after RemoveTag(ctx, k) with a name k, Tag(ctx3, k) on the
\* returned context is nil and Tag(ctx3, n) of every other name n is what the
\* mapping of ctx held before the call.
C10_TagRoundTrip ==
    /\ (tagCall.op = "AddTag" /\ tagCall.name # "")
           => Tag(tagCall.retCtx, tagCall.name) = tagCall.value
    /\ (tagCall.op = "RemoveTag" /\ tagCall.name # "")
           => /\ Tag(tagCall.retCtx, tagCall.name) = Nil
              /\ \A n \in Names \ {tagCall.name} :
                     Tag(tagCall.retCtx, n) = Lookup(tagCall.before, n)

\* a tag that AddTag had stored was removed from a mapping that keeps another
C10_Witness ==
    /\ tagCall.op = "RemoveTag" /\ tagCall.name = "a"
    /\ Lookup(tagCall.before, "a") = "2" /\ Lookup(tagCall.before, "b") = "1"
    /\ Tag(tagCall.retCtx, "a") = Nil /\ Tag(tagCall.retCtx, "b") = "1"

\* the names with a name of the AddTag calls made so far, and the value of the
\* most recent call for a name
AddedNames == {added[i][1] : i \in 1..Len(added)} \ {""}

LastAdded(name) ==
    LET last == CHOOSE i \in 1..Len(added) :
                    /\ added[i][1] = name
                    /\ \A j \in (i + 1)..Len(added) : added[j][1] # name
    IN  added[last][2]

\* C11: after any series of AddTag calls, each made on the context the call
\* before returned, the mapping of the context now held has exactly the names
\* (other than "") of the calls made, each with the value of the most recent call
\* for that name; the last call returned that mapping.
C11_LatestValuePerName ==
    /\ DOMAIN Tags(chain) = AddedNames
    /\ \A n \in AddedNames : Tags(chain)[n] = LastAdded(n)
    /\ tagCall.op = "AddTag" => tagCall.retTags = Tags(chain)

\* a->1, b->1, a->2 were added: two entries, a->2 and b->1
C11_Witness ==
    /\ added = <<<<"a", "1">>, <<"b", "1">>, <<"a", "2">>>>
    /\ Cardinality(DOMAIN Tags(chain)) = 2
    /\ Tag(chain, "a") = "2" /\ Tag(chain, "b") = "1"

\* C12: AddTag(ctx, "", v) and RemoveTag(ctx, "") return ctx itself and a mapping
\* with the entries the mapping of ctx had before the call (none if ctx carried
\* no mapping); such a call changes no context and no mapping; and no mapping
\* ever has an entry under the name "".
C12_EmptyNameNoOp ==
    /\ []((tagCall.op \in {"AddTag", "RemoveTag"} /\ tagCall.name = "")
              => (tagCall.retCtx = tagCall.ctx /\ tagCall.retTags = tagCall.before))
    /\ [](\A m \in DOMAIN heap : "" \notin DOMAIN heap[m])
    /\ [][(tagCall'.op \in {"AddTag", "RemoveTag"} /\ tagCall'.name = "")
              => (ctxStore' = ctxStore /\ heap' = heap)]_vars

\* AddTag with the name "" was called on a context whose mapping has an entry
C12_Witness ==
    /\ tagCall.op = "AddTag" /\ tagCall.name = "" /\ tagCall.value = "2"
    /\ Lookup(tagCall.before, "a") = "1"
    /\ tagCall.retCtx = tagCall.ctx /\ Tag(tagCall.ctx, "a") = "1"

(***************************************************************************)
(* Properties of New                                                       *)
(***************************************************************************)
\* C13: a logger built from options whose Threshold is left unset (the zero
\* value of the field) behaves as with the threshold Info: a call of a declared
\* severity attempts a Write iff its severity is Standard, Critical, Error,
\* Warning or Info; a Debug call is suppressed.
C13_UnsetThresholdIsInfo ==
    (call.op # "none" /\ opts.Threshold = ZeroOptions.Threshold
        /\ call.severity \in Declared)
        => ((call.writes # <<>>) <=> (call.severity <= LevelInfo))

(***************************************************************************)
(* Properties of the rendering                                             *)
(***************************************************************************)
\* fmt's mark for payload values the format has no verb for
Extra == "%!(EXTRA)"

\* the segment a token of a line belongs to: 1 timestamp, 2 severity label,
\* 3 function name, 4 tag list, 5 prefix, 6 payload, 7 line terminator; fmt's
\* mark for surplus values is set apart as 8
SegmentOf(token) ==
    IF token \in Tokens(Timestamp) THEN 1
    ELSE IF token \in {LevelNames[l] : l \in DOMAIN LevelNames} THEN 2
    ELSE IF token \in {ShortName(f)[1] : f \in {Handler, Main, Goexit}} THEN 3
    ELSE IF token \in {"[", ":", ", ", "]"} \cup Names \cup Values THEN 4
    ELSE IF token \in Tokens(opts.Prefix) THEN 5
    ELSE IF token = "\n" THEN 7
    ELSE IF token = Extra THEN 8
    ELSE 6

\* a line without the spaces that separate its parts
NotSpace(token) == token # " "
Content(line) == SelectSeq(line, NotSpace)

\* the tokens of a line that belong to a segment
Segment(line, k) == SelectSeq(line, LAMBDA token : SegmentOf(token) = k)

\* the message lines a call wrote (or tried to write)
MessageLines(c) == {c.writes[i].line : i \in WritesOfKind(c, "message")}

\* the segments of a line are those enabled, each once, in the fixed order (fmt's
\* mark for surplus values apart)
Composed(c, line) ==
    /\ \A i, j \in 1..Len(Content(line)) :
           i < j => SegmentOf(Content(line)[i]) <= SegmentOf(Content(line)[j])
    /\ Segment(line, 1) = (IF opts.DisableTimestamps THEN <<>> ELSE Timestamp)
    /\ Segment(line, 2) = LevelName(c.sev)
    /\ Len(Segment(line, 3)) = (IF c.capture = "ok" THEN 1 ELSE 0)
    /\ (Segment(line, 4) # <<>>) <=> (~opts.DisableTags /\ DOMAIN Tags(c.ctx) # {})
    /\ Segment(line, 5) = opts.Prefix
    /\ Segment(line, 7) = <<"\n">>

\* C14: every message line written consists of the enabled segments, each once,
\* in the order timestamp, label, function name, tag list, prefix, payload, and
\* the line terminator comes last.
C14_SegmentsThenTerminator ==
    \A line \in MessageLines(call) :
        /\ Composed(call, line)
        /\ line[Len(line)] = "\n"

\* how often a token occurs in a line
Occurrences(line, token) == Cardinality({i \in 1..Len(line) : line[i] = token})

\* the entry name:value occurs in a line, and how often
EntryAt(line, i, name, value) ==
    /\ i + 2 <= Len(line)
    /\ line[i] = name /\ line[i + 1] = ":" /\ line[i + 2] = value

EntryCount(line, name, value) ==
    Cardinality({i \in 1..Len(line) : EntryAt(line, i, name, value)})

\* C20: with DisableTags off, the message line of a call on a context with no
\* tag has no tag segment (no bracket at all); on a context with N >= 1 tags it
\* has one segment "[" ... "]" made of each tag once as name:value and N-1
\* separators ", ", none of them first or last; with DisableTags on it has no tag
\* segment whatever N is.
C20_TagSegment ==
    \A line \in MessageLines(call) :
        LET tags == Tags(call.ctx)
            N == Cardinality(DOMAIN tags)
            seg == Segment(line, 4)
        IN  IF opts.DisableTags \/ N = 0
            THEN seg = <<>>
            ELSE /\ Len(seg) = 2 + 3 * N + (N - 1)
                 /\ seg[1] = "[" /\ seg[Len(seg)] = "]"
                 /\ Occurrences(seg, "[") = 1 /\ Occurrences(seg, "]") = 1
                 /\ \A n \in DOMAIN tags : EntryCount(seg, n, tags[n]) = 1
                 /\ Occurrences(seg, ", ") = N - 1
                 /\ seg[2] # ", " /\ seg[Len(seg) - 1] # ", "
                 /\ \E i \in 1..Len(line) :
                        \A k \in 1..Len(seg) : i + k - 1 <= Len(line) /\ line[i + k - 1] = seg[k]

\* a context with two tags was logged, the map iteration yielding b before a
C20_Witness ==
    /\ call.op = "Stdf"
    /\ ~opts.DisableTags /\ Cardinality(DOMAIN Tags(call.ctx)) = 2
    /\ \E line \in MessageLines(call) :
           Segment(line, 4) = <<"[", "b", ":", "2", ", ", "a", ":", "1", "]">>

(***************************************************************************)
(* Properties of the concurrent calls                                      *)
(***************************************************************************)
\* the statements that read, iterate or write a mapping
MapAccess == {"read", "store", "len", "range"}

\* C15: a goroutine that is at a statement reading, iterating or writing a
\* mapping holds the logger's mutex; and no goroutine is about to insert into or
\* delete from a mapping that another goroutine is reading or iterating.
C15_TagAccessUnderMutex ==
    /\ \A t \in DOMAIN threads : threads[t].pc \in MapAccess => mux = t
    /\ \A t \in DOMAIN threads :
           threads[t].pc = "store" => Readers(t, threads[t].tags) = {}

\* the mapping that the contexts of the concurrent calls share at the start
SharedStore == ConcContexts[Len(ConcContexts)]

\* C16: when every goroutine has called AddTag with the same name on a context
\* carrying the shared mapping, the process is running, and once all calls have
\* returned the mapping has one entry for that name, its value being the value
\* one of the calls passed, and its other entries are as they were.
C16_LastWriteWins ==
    \A name \in Names \ {""} :
        (\A t \in DOMAIN threads :
             /\ threads[t].op = "AddTag" /\ threads[t].name = name
             /\ CtxValue(threads[t].ctx).ok /\ ctxStore[threads[t].ctx] = SharedStore)
        => /\ ~exited
           /\ (\A t \in DOMAIN threads : threads[t].pc = "done")
                  => /\ DOMAIN heap[SharedStore] = DOMAIN ConcMappings[SharedStore] \cup {name}
                     /\ heap[SharedStore][name] \in {threads[t].value : t \in DOMAIN threads}
                     /\ \A n \in DOMAIN ConcMappings[SharedStore] \ {name} :
                            heap[SharedStore][n] = ConcMappings[SharedStore][n]

\* both goroutines added "a" to the shared mapping, with different values, and
\* have returned; the value of g1 is the one stored
C16_Witness ==
    /\ threads # NoThreads
    /\ \A t \in DOMAIN threads :
           /\ threads[t].op = "AddTag" /\ threads[t].name = "a" /\ threads[t].pc = "done"
           /\ threads[t].tags = SharedStore
    /\ threads["g1"].value = "1" /\ threads["g2"].value = "2"
    /\ heap[SharedStore] = ("a" :> "1") @@ ("b" :> "1")

\* C19: a goroutine whose stream Write is in progress does not hold the mutex;
\* and while it stays there, however long, the call of the other goroutine gets
\* the mutex and runs to its end (or to its own stream Write).
C19_NoLockAcrossWrite ==
    /\ [](\A t \in DOMAIN threads : threads[t].pc = "write" => mux # t)
    /\ \A t \in Threads : \A u \in Threads \ {t} :
           (threads[t].pc = "write") ~> (threads[u].pc \in {"done", "write"})

\* g1 is inside its stream Write and g2, adding a tag, holds the mutex
C19_Witness ==
    /\ threads # NoThreads
    /\ threads["g1"].op = "Log" /\ threads["g1"].pc = "write"
    /\ threads["g2"].op = "AddTag" /\ threads["g2"].pc = "store" /\ mux = "g2"

(***************************************************************************)
(* Properties of the Writer                                                *)
(***************************************************************************)
\* C17: Write(p) with an empty p returns (0, nil), the handler not called and
\* the sink as it was; with a non-empty p the handler is called once, with p, and
\* Write returns (len(p), nil) when the handler returned nil, whatever it passed
\* on to the sink, and (0, err) when the handler returned err.
C17_WriterWrite ==
    wcall.handler # "none"
        => IF wcall.p = <<>>
           THEN wcall.n = 0 /\ wcall.err = Nil /\ wcall.handled = 0 /\ sink = wcall.before
           ELSE /\ wcall.handled = 1 /\ wcall.given = wcall.p
                /\ IF wcall.herr = Nil
                   THEN wcall.n = Len(wcall.p) /\ wcall.err = Nil
                   ELSE wcall.n = 0 /\ wcall.err = wcall.herr

\* the handler passed on one of two lines and returned nil: Write returned 2
C17_Witness ==
    /\ wcall.handler = "INFO" /\ wcall.p = <<"ERROR", "INFO">>
    /\ wcall.n = 2 /\ wcall.err = Nil /\ sink = wcall.before \o <<"INFO">>

(***************************************************************************)
(* Properties of the function name and of the format                       *)
(***************************************************************************)
\* C21: whatever the logging operation called (Log, Logf or a wrapper), when the
\* function name is captured the message line shows the short name of the
\* function that called the operation: the first function of the caller's stack.
C21_NameOfDirectCaller ==
    (call.op # "none" /\ call.capture = "ok" /\ call.stack # <<>>)
        => \A line \in MessageLines(call) : Segment(line, 3) = ShortName(call.stack[1])

\* what Log, called by the same caller with the same context, severity and
\* values, writes (for each order the map iteration can yield the tags in)
LogWrites(c, message) ==
    {Logf(c.ctx, c.severity, <<>>, message, Frames("Log", c.stack), order,
          c.outErr, c.errErr).writes : order \in Orders(DOMAIN Tags(c.ctx))}

\* in a line, exactly one space stands between the first value and the segment
\* before it
OneSpaceBefore(line, value) ==
    \A i \in 1..Len(line) :
        (line[i] = value /\ \A j \in 1..(i - 1) : line[j] # value)
            => /\ i > 2
               /\ line[i - 1] = " " /\ line[i - 2] # " "

\* C22: Logf called with values v1..vn (n >= 1) and the format of n %v joined by
\* single spaces makes the Writes that Log makes for those values, and in its
\* message line exactly one space separates the payload from the segment before.
C22_ExplicitFormatAsLog ==
    (call.op = "Logf" /\ payload.message # <<>>
        /\ payload.format = Joined(Len(payload.message)))
        => /\ call.writes \in LogWrites(call, payload.message)
           /\ \A line \in MessageLines(call) : OneSpaceBefore(line, payload.message[1])

(***************************************************************************)
(* Properties of the mapping shared by contexts                            *)
(***************************************************************************)
\* the contexts that carry the mapping that ctx carries
Sharing(ctx) == {c \in DOMAIN ctxStore : ctxStore[c] = ctxStore[ctx]}

\* what Tag returns for the name of the last AddTag or RemoveTag call
Changed == IF tagCall.op = "AddTag" THEN tagCall.value ELSE Nil

\* C23: after AddTag(ctx, k, v) or RemoveTag(ctx, k) with a name k on a ctx that
\* carries a mapping, the context returned carries that same mapping, and Tag and
\* Tags (which Logf renders) show the change through ctx and through every
\* context that carries the mapping, the other names being as before; on a ctx
\* that carries no mapping, ctx still carries none and has no tag k, and only the
\* context returned has the change.
C23_ChangedInPlace ==
    (tagCall.op \in {"AddTag", "RemoveTag"} /\ tagCall.name # "")
        => IF CtxValue(tagCall.ctx).ok
           THEN /\ tagCall.retCtx \in Sharing(tagCall.ctx)
                /\ \A c \in Sharing(tagCall.ctx) :
                       /\ Tag(c, tagCall.name) = Changed
                       /\ Tags(c) = tagCall.retTags
                       /\ \A n \in Names \ {tagCall.name} :
                              Tag(c, n) = Lookup(tagCall.before, n)
           ELSE /\ Tags(tagCall.ctx) = EmptyMap
                /\ Tag(tagCall.ctx, tagCall.name) = Nil
                /\ Tag(tagCall.retCtx, tagCall.name) = Changed
                /\ Sharing(tagCall.retCtx) = {tagCall.retCtx}

\* AddTag on a context gave a new tag to a third context that carries the mapping
C23_Witness ==
    /\ tagCall.op = "AddTag" /\ tagCall.name = "b"
    /\ CtxValue(tagCall.ctx).ok /\ "b" \notin DOMAIN tagCall.before
    /\ \E c \in Sharing(tagCall.ctx) \ {tagCall.ctx, tagCall.retCtx} :
           Tag(c, "b") = tagCall.value
    /\ Tag(tagCall.ctx, "b") = tagCall.value

====
